---- MODULE Spec2Model ----
(***************************************************************************)
(* FiPulseChartWidget (fipulse-widget/src/widget.ts): the widget that      *)
(* wires the market-data SDK to the charting library.  The state is the    *)
(* fields of the class, the position of the asynchronous initialize() /    *)
(* loadTokenData() chain, and the connection flag of the SDK.  Every       *)
(* action is one run-to-completion task of the JavaScript event loop: a    *)
(* public method, an SDK callback, a promise continuation or a timer.      *)
(***************************************************************************)
EXTENDS Integers, Sequences, FiniteSets, TLC

VARIABLES
    options,              \* this.options (defaults merged, never reassigned)
    sdk,                  \* this.sdk: "live" | "null"
    chart,                \* this.chart: "live" | "null"
    candlestickSeries,    \* this.candlestickSeries: "series" | "null"
    lineSeries,           \* this.lineSeries: "series" | "null"
    volumeSeries,         \* this.volumeSeries: "series" | "null"
    legendElement,        \* this.legendElement: "element" | "null"
    legendHtml,           \* legendElement.innerHTML, as the values rendered into it
    chartData,            \* this.chartData
    currentPrice,         \* this.currentPrice: <<>> is null, <<p>> is the number p
    priceChange,          \* this.priceChange
    previousCandleCount,  \* this.previousCandleCount
    isInitialLoad,        \* this.isInitialLoad
    previousPrice,        \* this.previousPrice
    pc,                   \* position of initialize() / loadTokenData() / the wait
    elapsed,              \* Date.now() - startTime of waitForWebSocketConnection
    polls,                \* polls of checkConnection made through setTimeout
    isConnected,          \* sdk.getSubscriptionStatus().isConnected
    calls,                \* calls the last task made on its collaborators, in order
    ev,                   \* the last task and the values it read on entry
    thrown,               \* the uncaught exception raised so far, "none" if none
    sdkDestroyCalls,      \* number of sdk.destroy() calls made
    chartRemoveCalls,     \* number of chart.remove() calls made
    destroyed,            \* destroy() has been called
    subscribeCalls,       \* token ids passed to sdk.subscribe(), in order
    waitResult            \* what waitForWebSocketConnection resolved with, "none" before

vars == << options, sdk, chart, candlestickSeries, lineSeries, volumeSeries,
           legendElement, legendHtml, chartData, currentPrice, priceChange,
           previousCandleCount, isInitialLoad, previousPrice, pc, elapsed,
           polls, isConnected, calls, ev, thrown, sdkDestroyCalls,
           chartRemoveCalls, destroyed, subscribeCalls, waitResult >>

widgetFields == << chart, candlestickSeries, lineSeries, volumeSeries,
                   legendElement, legendHtml, chartData, currentPrice,
                   priceChange, previousCandleCount, isInitialLoad,
                   previousPrice >>

-----------------------------------------------------------------------------
(* Bounds of the model and constants of the program.                       *)

\* Snapshot lengths are 0..SmallLen and the same range shifted by the
\* incremental threshold, so that count differences of 0, 1, 2..50, more
\* than 50 and less than 0 all occur.
SmallLen == 1

\* Trades are merged into a candle while its TransactionCount is below this.
MaxTransactionCount == 2

MAX_INCREMENTAL_CANDLES == 50

MergeWindowSeconds == 120

PollIntervalMs == 100

maxWaitMs == 5000

\* The longest snapshot delivered while the legend is watched.
LegendLen == 2

\* The minute of the last candle of every snapshot.
LastCandleMinute == 100

LastCandleTime == 60 * LastCandleMinute

Null == "null"

NoPrice == << >>

Some(x) == << x >>

Max(a, b) == IF a >= b THEN a ELSE b

Min(a, b) == IF a <= b THEN a ELSE b

\* Math.floor(x / 60) * 60 for x >= 0
MinuteBucket(x) == (x \div 60) * 60

\* x || 0 for an optional number
OrZero(x) == IF x = << >> THEN 0 ELSE x[1]

-----------------------------------------------------------------------------
(* Inputs.                                                                 *)

TokenIds == { "1-0xabc" }

\* The options create() may be given, after the defaults are merged.
\* container is whether the option resolves to an element of the document,
\* hasCallbacks whether onError, onDataUpdate, onTrade and onConnectionChange
\* are supplied.
OptionSets ==
    [ container : BOOLEAN,
      tokenId : TokenIds,
      showVolume : BOOLEAN,
      priceSeriesType : { "candle", "line" },
      theme : { "light" },
      legendStyle : { "none", "complex" },
      symbol : { "BTC/USDT" },
      hasCallbacks : BOOLEAN ]

\* The options of a widget whose legend is watched: the three legend
\* styles, the callbacks supplied.
LegendOptionSets ==
    [ container : BOOLEAN,
      tokenId : TokenIds,
      showVolume : BOOLEAN,
      priceSeriesType : { "candle", "line" },
      theme : { "light" },
      legendStyle : { "none", "simple", "complex" },
      symbol : { "BTC/USDT" },
      hasCallbacks : { TRUE } ]

SnapshotLengths ==
    (0 .. SmallLen) \cup (MAX_INCREMENTAL_CANDLES .. MAX_INCREMENTAL_CANDLES + SmallLen)

\* A candle of the SDK.  TransactionCount is optional: << >> when absent.
MkCandle(ts, open, tx) ==
    [ Timestamp |-> ts, OpenPrice |-> open, HighPrice |-> Max(open, 2), LowPrice |-> Min(open, 2),
      ClosePrice |-> 2, VolumeIn |-> 10, VolumeOut |-> 4, TransactionCount |-> tx ]

\* A snapshot of n candles, one per minute, ascending, the last at
\* LastCandleTime; firstOpen is the open price of the first candle.
MkCandles(n, firstOpen, tx) ==
    [ i \in 1 .. n |->
        MkCandle(LastCandleTime - 60 * (n - i), IF i = 1 THEN firstOpen ELSE 2, tx) ]

Snapshots ==
    { [ candles |-> MkCandles(n, v.firstOpen, v.tx), lastUpdate |-> 1,
        isLoading |-> FALSE, error |-> Null ] :
        n \in SnapshotLengths,
        v \in { [ firstOpen |-> 1, tx |-> Some(1) ], [ firstOpen |-> 0, tx |-> << >> ] } }

\* Trades: one before the last candle's minute, one in it, one at the end
\* of the merge window and one just behind it; a price under the candle's
\* low and one over its high.
Trades ==
    [ Price : { 1, 3 },
      Amount : { 2 },
      USD : { 5 },
      TradeTime : { LastCandleTime - 1, LastCandleTime + 59,
                    LastCandleTime + MergeWindowSeconds + 59,
                    LastCandleTime + MergeWindowSeconds + 60 } ]

\* Snapshots for the legend: up to LegendLen candles, the first opening at
\* 0 (no percentage can be taken), under the close, or over it.
LegendSnapshots ==
    { [ candles |-> MkCandles(n, firstOpen, Some(1)), lastUpdate |-> 1,
        isLoading |-> FALSE, error |-> Null ] :
        n \in 0 .. LegendLen, firstOpen \in { 0, 1, 4 } }

SdkErrors == { "ws error", "Max reconnect attempts reached" }

ConnectionStatuses == { "connecting", "connected", "disconnected" }

\* Delays after which a poll timer fires: on time, or late.
PollDelays == { PollIntervalMs, maxWaitMs }

-----------------------------------------------------------------------------
(* Data adapter.                                                           *)

\* new Date(utcTimestamp * 1000).getTimezoneOffset(): minutes behind UTC of
\* the viewer's zone at that date (a zone that changes its offset at 5000).
GetTimezoneOffset(utcTimestamp) == IF utcTimestamp < 5000 THEN -60 ELSE -120

LocalTimestamp(utcTimestamp) == utcTimestamp - GetTimezoneOffset(utcTimestamp) * 60

convertCandleToChartData(candle) ==
    [ time |-> LocalTimestamp(candle.Timestamp), open |-> candle.OpenPrice,
      high |-> candle.HighPrice, low |-> candle.LowPrice, close |-> candle.ClosePrice ]

convertCandleToAreaData(candle) ==
    [ time |-> LocalTimestamp(candle.Timestamp), value |-> candle.ClosePrice ]

\* The volume point with the up colour kept for a rising candle only
convertCandleToVolumeData_StrictUp(candle) ==
    [ time |-> LocalTimestamp(candle.Timestamp), value |-> candle.VolumeIn,
      color |-> IF candle.ClosePrice > candle.OpenPrice
                THEN (IF options.theme = "dark" THEN "#00d4aa80" ELSE "#26a69a40")
                ELSE (IF options.theme = "dark" THEN "#ff6b6b80" ELSE "#ef535040") ]

convertCandleToVolumeData(candle) ==
    [ time |-> LocalTimestamp(candle.Timestamp), value |-> candle.VolumeIn,
      color |-> IF candle.ClosePrice >= candle.OpenPrice
                THEN (IF options.theme = "dark" THEN "#00d4aa80" ELSE "#26a69a40")
                ELSE (IF options.theme = "dark" THEN "#ff6b6b80" ELSE "#ef535040") ]

MapSeq(F(_), s) == [ i \in 1 .. Len(s) |-> F(s[i]) ]

\* A call made on a collaborator or on a callback of the options.
Call(op, on, arg) == [ op |-> op, on |-> on, arg |-> arg ]

-----------------------------------------------------------------------------
(* Legend renderer.                                                        *)

\* price.toFixed(2) of a whole number, "--" for null
formatPrice(price) ==
    IF price = NoPrice THEN << "--" >> ELSE << "fixed2", price[1], 0 >>

\* percentage.toFixed(2) + "%" of a whole number
formatPercentage(percentage) == << "fixed2%", percentage, 0 >>

UpColor == IF options.theme = "dark" THEN "#00d4aa" ELSE "#26a69a"

DownColor == IF options.theme = "dark" THEN "#ff6b6b" ELSE "#ef5350"

NeutralColor == IF options.theme = "dark" THEN "#64b5f6" ELSE "#2196f3"

\* The colour of the 24h change with no change taken for a fall
rateColor_ZeroIsDown(change) == IF change > 0 THEN UpColor ELSE DownColor

\* The colour of the 24h change
rateColor(change) == IF change >= 0 THEN UpColor ELSE DownColor

\* The innerHTML updateLegend(null) writes for a price and a 24h change.
LegendMarkup(price, change) ==
    [ tokenName |-> options.symbol,
      price |-> formatPrice(price),
      priceColor |-> IF change > 0 THEN UpColor
                     ELSE IF change < 0 THEN DownColor ELSE NeutralColor,
      rate24h |-> formatPercentage(change),
      rateColor |-> rateColor(change),
      ohlc |-> << >> ]

Abs(x) == IF x >= 0 THEN x ELSE -x

\* this.chartData.candles.find(...): the first stored candle whose local
\* time is within a minute of the crosshair; << >> if there is none
matchingCandle(candles, crosshairTime) ==
    LET hits == { i \in 1 .. Len(candles) :
                    Abs(LocalTimestamp(candles[i].Timestamp) - crosshairTime) < 60 }
    IN  IF hits = { } THEN << >>
        ELSE << candles[CHOOSE i \in hits : \A k \in hits : i <= k] >>

\* The change of a candle from open to close, in percent
candleChange(candle) ==
    IF candle.OpenPrice > 0
    THEN ((candle.ClosePrice - candle.OpenPrice) * 100) \div candle.OpenPrice
    ELSE 0

\* The range of a candle from low to high, in percent of the open
candleFluctuation(candle) ==
    IF candle.OpenPrice > 0
    THEN ((candle.HighPrice - candle.LowPrice) * 100) \div candle.OpenPrice
    ELSE 0

\* The OHLC block of the legend for a crosshair event: << >> without one.
\* param.time is << >> when the pointer is off the chart, param.data the
\* bar the candlestick series shows under the pointer, << >> if none.
ohlcHtml(param, candles, series) ==
    IF param.time # << >> /\ series # Null /\ param.data # << >>
    THEN LET data == param.data[1]
             match == matchingCandle(candles, param.time[1])
         IN  << [ open |-> formatPrice(Some(data.open)),
                  high |-> formatPrice(Some(data.high)),
                  low |-> formatPrice(Some(data.low)),
                  close |-> formatPrice(Some(data.close)),
                  volume |-> IF match # << >> THEN << match[1].VolumeIn >> ELSE << >>,
                  change |-> IF match # << >>
                             THEN << formatPercentage(candleChange(match[1])) >>
                             ELSE << >>,
                  changeColor |-> IF match # << >>
                                  THEN << IF candleChange(match[1]) >= 0
                                          THEN UpColor ELSE DownColor >>
                                  ELSE << >>,
                  fluctuation |-> IF match # << >>
                                  THEN << formatPercentage(candleFluctuation(match[1])) >>
                                  ELSE << >> ] >>
    ELSE << >>

\* updateLegend(null) with the given fields: whether it writes, and what.
LegendWrites(element, theChart) == element # Null /\ theChart # Null

\* ((close - open) / open) * 100; the inputs keep the division exact
PercentChange(close, open) == ((close - open) * 100) \div open

-----------------------------------------------------------------------------
(* Update reconciler.                                                      *)

HasPriceCandle == options.priceSeriesType = "candle" /\ candlestickSeries # Null

HasPriceLine == options.priceSeriesType = "line" /\ lineSeries # Null

\* updateChart(data) without its return on an empty snapshot
updateChart_NoEarlyReturn(data) ==
    (IF HasPriceCandle
       THEN << Call("setData", "candlestick",
                    MapSeq(convertCandleToChartData, data.candles)) >>
     ELSE IF HasPriceLine
       THEN << Call("setData", "line",
                    MapSeq(convertCandleToAreaData, data.candles)) >>
     ELSE << >>)
    \o (IF options.showVolume /\ volumeSeries # Null
          THEN << Call("setData", "volume",
                       MapSeq(convertCandleToVolumeData, data.candles)) >>
        ELSE << >>)
    \o (IF chart # Null /\ Len(data.candles) > 0
          THEN << Call("fitContent", "timeScale", << >>) >>
        ELSE << >>)

\* updateChart(data) without its fitContent() request
updateChart_NoFit(data) ==
    IF Len(data.candles) = 0 THEN << >>
    ELSE (IF HasPriceCandle
            THEN << Call("setData", "candlestick",
                         MapSeq(convertCandleToChartData, data.candles)) >>
          ELSE IF HasPriceLine
            THEN << Call("setData", "line",
                         MapSeq(convertCandleToAreaData, data.candles)) >>
          ELSE << >>)
         \o (IF options.showVolume /\ volumeSeries # Null
               THEN << Call("setData", "volume",
                            MapSeq(convertCandleToVolumeData, data.candles)) >>
             ELSE << >>)

\* updateChart(data): the calls it makes on the series and the time scale
updateChart(data) ==
    IF Len(data.candles) = 0 THEN << >>
    ELSE (IF HasPriceCandle
            THEN << Call("setData", "candlestick",
                         MapSeq(convertCandleToChartData, data.candles)) >>
          ELSE IF HasPriceLine
            THEN << Call("setData", "line",
                         MapSeq(convertCandleToAreaData, data.candles)) >>
          ELSE << >>)
         \o (IF options.showVolume /\ volumeSeries # Null
               THEN << Call("setData", "volume",
                            MapSeq(convertCandleToVolumeData, data.candles)) >>
             ELSE << >>)
         \o (IF chart # Null /\ Len(data.candles) > 0
               THEN << Call("fitContent", "timeScale", << >>) >>
             ELSE << >>)

\* updateSingleCandle(candle) leaving the volume series alone
updateSingleCandle_SkipVolume(candle) ==
    (IF HasPriceCandle
       THEN << Call("update", "candlestick", convertCandleToChartData(candle)) >>
     ELSE IF HasPriceLine
       THEN << Call("update", "line", convertCandleToAreaData(candle)) >>
     ELSE << >>)
    \o (IF chart # Null
          THEN << Call("scrollToRealTime", "timeScale", << >>) >>
        ELSE << >>)

\* updateSingleCandle(candle): the calls it makes (it also sets currentPrice
\* to candle.ClosePrice, which the actions below do)
updateSingleCandle(candle) ==
    (IF HasPriceCandle
       THEN << Call("update", "candlestick", convertCandleToChartData(candle)) >>
     ELSE IF HasPriceLine
       THEN << Call("update", "line", convertCandleToAreaData(candle)) >>
     ELSE << >>)
    \o (IF options.theme # Null /\ volumeSeries # Null
          THEN << Call("update", "volume", convertCandleToVolumeData(candle)) >>
        ELSE << >>)
    \o (IF chart # Null
          THEN << Call("scrollToRealTime", "timeScale", << >>) >>
        ELSE << >>)

isIncrementalUpdate(initialLoad, currentCount, candleCountDiff) ==
    /\ ~initialLoad
    /\ currentCount > 0
    /\ candleCountDiff >= 0
    /\ candleCountDiff <= MAX_INCREMENTAL_CANDLES

\* handleChartUpdate(data) upserting the last candle on every incremental
\* update, whatever the count difference
ReconcileCalls_AlwaysSingle(data, initialLoad, previousCount) ==
    LET currentCount == Len(data.candles)
        candleCountDiff == currentCount - previousCount
    IN  IF isIncrementalUpdate(initialLoad, currentCount, candleCountDiff)
           /\ Len(data.candles) > 0
        THEN updateSingleCandle(data.candles[Len(data.candles)])
        ELSE updateChart(data)

\* The series calls of handleChartUpdate(data)
ReconcileCalls(data, initialLoad, previousCount) ==
    LET currentCount == Len(data.candles)
        candleCountDiff == currentCount - previousCount
    IN  IF isIncrementalUpdate(initialLoad, currentCount, candleCountDiff)
           /\ Len(data.candles) > 0
        THEN IF candleCountDiff = 0 \/ candleCountDiff = 1
             THEN updateSingleCandle(data.candles[Len(data.candles)])
             ELSE updateChart(data)
        ELSE updateChart(data)

\* this.priceChange taken from a single candle as well
NextPriceChange_SingleCandle(data, change) ==
    IF Len(data.candles) >= 1 /\ data.candles[1].OpenPrice > 0
    THEN PercentChange(data.candles[Len(data.candles)].ClosePrice,
                       data.candles[1].OpenPrice)
    ELSE change

\* this.priceChange after handleChartUpdate(data)
NextPriceChange(data, change) ==
    IF Len(data.candles) > 1 /\ data.candles[1].OpenPrice > 0
    THEN PercentChange(data.candles[Len(data.candles)].ClosePrice,
                       data.candles[1].OpenPrice)
    ELSE change

\* The callbacks of the options with the errors put into one class
Notify_ErrorsClassified(op, arg) ==
    IF options.hasCallbacks
    THEN << Call(op, "options", IF op = "onError" THEN "Connection error" ELSE arg) >>
    ELSE << >>

\* The callbacks of the options with onTrade never called
Notify_ExceptTrades(op, arg) ==
    IF options.hasCallbacks /\ op # "onTrade" THEN << Call(op, "options", arg) >> ELSE << >>

\* A callback of the options, called if supplied
Notify(op, arg) ==
    IF options.hasCallbacks THEN << Call(op, "options", arg) >> ELSE << >>

\* The handlers leaving the legend as it is
LegendRefresh_Skipped(price, change) == << >>

\* The legend refresh both handlers make when legendStyle is not 'none'
LegendRefresh(price, change) ==
    IF options.legendStyle # "none" /\ LegendWrites(legendElement, chart)
    THEN << Call("innerHTML", "legend", LegendMarkup(price, change)) >>
    ELSE << >>

\* handleChartUpdate(data) telling onDataUpdate before it does its work
SnapshotCalls_NotifiesFirst(seriesCalls, refresh, data) ==
    Notify("onDataUpdate", data) \o seriesCalls \o refresh

\* The calls of handleChartUpdate(data) in their order: on the series, on
\* the legend, and onDataUpdate(data) in the end
SnapshotCalls(seriesCalls, refresh, data) ==
    seriesCalls \o refresh \o Notify("onDataUpdate", data)

handleChartUpdate(data) ==
    LET previousCount == previousCandleCount
        currentCount == Len(data.candles)
        candleCountDiff == currentCount - previousCount
        incremental == isIncrementalUpdate(isInitialLoad, currentCount, candleCountDiff)
                       /\ Len(data.candles) > 0
        price == IF currentCount > 0
                 THEN Some(data.candles[currentCount].ClosePrice) ELSE currentPrice
        change == IF currentCount > 0 THEN NextPriceChange(data, priceChange)
                  ELSE priceChange
        refresh == IF currentCount > 0 THEN LegendRefresh(price, change) ELSE << >>
    IN  /\ chartData' = data
        /\ isInitialLoad' = (IF incremental THEN isInitialLoad ELSE FALSE)
        /\ previousCandleCount' = currentCount
        /\ currentPrice' = price
        /\ priceChange' = change
        /\ legendHtml' = (IF refresh # << >> THEN refresh[1].arg ELSE legendHtml)
        /\ calls' = SnapshotCalls(ReconcileCalls(data, isInitialLoad, previousCount),
                                  refresh, data)
        /\ ev' = [ kind |-> "chartUpdate", previousCount |-> previousCount,
                   currentCount |-> currentCount, wasInitialLoad |-> isInitialLoad ]
        /\ UNCHANGED << options, sdk, chart, candlestickSeries, lineSeries,
                        volumeSeries, legendElement, previousPrice, pc, elapsed,
                        polls, isConnected, thrown, sdkDestroyCalls,
                        chartRemoveCalls, destroyed, subscribeCalls, waitResult >>

\* The merge window without its near end
inMergeWindow_Exclusive(timeDiff) == timeDiff > 0 /\ timeDiff <= MergeWindowSeconds

inMergeWindow(timeDiff) == timeDiff >= 0 /\ timeDiff <= MergeWindowSeconds

\* The merge with the two volumes taking each other's increment
mergeTrade_VolumesSwapped(latestCandle, trade) ==
    [ latestCandle EXCEPT
        !.ClosePrice = trade.Price,
        !.HighPrice = Max(latestCandle.HighPrice, trade.Price),
        !.LowPrice = Min(latestCandle.LowPrice, trade.Price),
        !.VolumeIn = latestCandle.VolumeIn + trade.Amount,
        !.VolumeOut = latestCandle.VolumeOut + trade.USD,
        !.TransactionCount = Some(OrZero(latestCandle.TransactionCount) + 1) ]

\* The merge opening a candle at the trade's own minute
mergeTrade_NewBucket(latestCandle, trade) ==
    [ latestCandle EXCEPT
        !.Timestamp = MinuteBucket(trade.TradeTime),
        !.ClosePrice = trade.Price,
        !.HighPrice = Max(latestCandle.HighPrice, trade.Price),
        !.LowPrice = Min(latestCandle.LowPrice, trade.Price),
        !.VolumeIn = latestCandle.VolumeIn + trade.USD,
        !.VolumeOut = latestCandle.VolumeOut + trade.Amount,
        !.TransactionCount = Some(OrZero(latestCandle.TransactionCount) + 1) ]

\* The merge leaving the close price as it was
mergeTrade_StaleClose(latestCandle, trade) ==
    [ latestCandle EXCEPT
        !.HighPrice = Max(latestCandle.HighPrice, trade.Price),
        !.LowPrice = Min(latestCandle.LowPrice, trade.Price),
        !.VolumeIn = latestCandle.VolumeIn + trade.USD,
        !.VolumeOut = latestCandle.VolumeOut + trade.Amount,
        !.TransactionCount = Some(OrZero(latestCandle.TransactionCount) + 1) ]

\* The candle handleTrade puts in place of latestCandle
mergeTrade(latestCandle, trade) ==
    [ latestCandle EXCEPT
        !.ClosePrice = trade.Price,
        !.HighPrice = Max(latestCandle.HighPrice, trade.Price),
        !.LowPrice = Min(latestCandle.LowPrice, trade.Price),
        !.VolumeIn = latestCandle.VolumeIn + trade.USD,
        !.VolumeOut = latestCandle.VolumeOut + trade.Amount,
        !.TransactionCount = Some(OrZero(latestCandle.TransactionCount) + 1) ]

handleTrade(trade) ==
    LET n == Len(chartData.candles)
        latestCandle == chartData.candles[n]
        timeDiff == MinuteBucket(trade.TradeTime) - latestCandle.Timestamp
        merges == n > 0 /\ inMergeWindow(timeDiff)
        updatedCandle == mergeTrade(latestCandle, trade)
    IN  /\ merges => OrZero(latestCandle.TransactionCount) < MaxTransactionCount
        /\ currentPrice' = Some(trade.Price)
        /\ previousPrice' = trade.Price
        /\ legendHtml' = (IF LegendRefresh(Some(trade.Price), priceChange) # << >>
                          THEN LegendMarkup(Some(trade.Price), priceChange)
                          ELSE legendHtml)
        /\ chartData' = (IF merges
                         THEN [ chartData EXCEPT !.candles[n] = updatedCandle ]
                         ELSE chartData)
        /\ calls' = LegendRefresh(Some(trade.Price), priceChange)
                    \o (IF merges THEN updateSingleCandle(updatedCandle) ELSE << >>)
                    \o Notify("onTrade", trade)
        /\ ev' = [ kind |-> "trade", trade |-> trade,
                   latestCandle |-> IF n > 0 THEN << latestCandle >> ELSE << >>,
                   merged |-> merges ]
        /\ UNCHANGED << options, sdk, chart, candlestickSeries, lineSeries,
                        volumeSeries, legendElement, priceChange,
                        previousCandleCount, isInitialLoad, pc, elapsed, polls,
                        isConnected, thrown, sdkDestroyCalls, chartRemoveCalls,
                        destroyed, subscribeCalls, waitResult >>

-----------------------------------------------------------------------------
(* Widget controller.                                                      *)

EmptyChartData ==
    [ candles |-> << >>, lastUpdate |-> Null, isLoading |-> TRUE, error |-> Null ]

\* The series initializeChart() adds for the options
PriceSeriesCreated(kind) == options.priceSeriesType = kind

\* A volume series added whatever showVolume says
VolumeSeriesCreated_Always == TRUE

VolumeSeriesCreated == options.showVolume

\* A legend element made for the 'complex' style only
LegendCreated_ComplexOnly == options.legendStyle = "complex"

LegendCreated == options.legendStyle = "simple" \/ options.legendStyle = "complex"

\* The calls of a successful initializeChart()
InitializeChartCalls ==
    << Call("createChart", "container", << >>) >>
    \o (IF PriceSeriesCreated("candle")
          THEN << Call("addSeries", "chart", "candlestick") >>
        ELSE IF PriceSeriesCreated("line")
          THEN << Call("addSeries", "chart", "line") >>
        ELSE << >>)
    \o (IF VolumeSeriesCreated THEN << Call("addSeries", "chart", "volume") >> ELSE << >>)
    \o (IF LegendCreated
          THEN << Call("innerHTML", "legend", LegendMarkup(currentPrice, priceChange)) >>
        ELSE << >>)

\* initialize() behind "await this.initializeSDK()": initializeChart(), then
\* loadTokenData() up to its "await this.sdk.initialize(tokenId, true)".
InitializeChart ==
    /\ pc = "initializeChart"
    /\ IF ~options.container
       THEN /\ thrown' = "Chart container not found"
            /\ pc' = "failed"
            /\ calls' = << >>
            /\ UNCHANGED << chart, candlestickSeries, lineSeries, volumeSeries,
                            legendElement, legendHtml, isInitialLoad,
                            previousCandleCount, chartData >>
       ELSE /\ chart' = "live"
            /\ candlestickSeries' =
                 (IF PriceSeriesCreated("candle") THEN "series" ELSE candlestickSeries)
            /\ lineSeries' =
                 (IF ~PriceSeriesCreated("candle") /\ PriceSeriesCreated("line")
                  THEN "series" ELSE lineSeries)
            /\ volumeSeries' = (IF VolumeSeriesCreated THEN "series" ELSE volumeSeries)
            /\ legendElement' = (IF LegendCreated THEN "element" ELSE legendElement)
            /\ legendHtml' = (IF LegendWrites(legendElement', chart')
                              THEN LegendMarkup(currentPrice, priceChange)
                              ELSE legendHtml)
            /\ thrown' = thrown
            /\ IF sdk # Null /\ options.tokenId # ""
               THEN /\ isInitialLoad' = TRUE
                    /\ previousCandleCount' = 0
                    /\ chartData' = EmptyChartData
                    /\ pc' = "history"
                    /\ calls' = InitializeChartCalls
                                 \o << Call("initialize", "sdk", options.tokenId) >>
               ELSE /\ pc' = "idle"
                    /\ calls' = InitializeChartCalls
                    /\ UNCHANGED << isInitialLoad, previousCandleCount, chartData >>
    /\ ev' = [ kind |-> "initializeChart" ]
    /\ UNCHANGED << options, sdk, currentPrice, priceChange, previousPrice,
                    elapsed, polls, isConnected, sdkDestroyCalls,
                    chartRemoveCalls, destroyed, subscribeCalls, waitResult >>

\* sdk.initialize(tokenId, true) resolved: loadTokenData() sets the timer.
HistoryLoaded ==
    /\ pc = "history"
    /\ pc' = "delay"
    /\ calls' = << >>
    /\ ev' = [ kind |-> "historyLoaded" ]
    /\ UNCHANGED << options, sdk, widgetFields, elapsed, polls, isConnected,
                    thrown, sdkDestroyCalls, chartRemoveCalls, destroyed,
                    subscribeCalls, waitResult >>

LoadErrors == { "HTTP error! status: 500" }

\* The catch of loadTokenData() leaving the loading flag set
FailedChartData_StillLoading(data, errorMessage) ==
    [ data EXCEPT !.error = errorMessage ]

\* { ...this.chartData, error: errorMessage, isLoading: false }
FailedChartData(data, errorMessage) ==
    [ data EXCEPT !.error = errorMessage, !.isLoading = FALSE ]

\* sdk.initialize(tokenId, true) rejected: the catch of loadTokenData().
HistoryFailed(errorMessage) ==
    /\ pc = "history"
    /\ pc' = "loadFailed"
    /\ chartData' = FailedChartData(chartData, errorMessage)
    /\ calls' = Notify("onError", errorMessage)
    /\ ev' = [ kind |-> "historyFailed", error |-> errorMessage ]
    /\ UNCHANGED << options, sdk, chart, candlestickSeries, lineSeries,
                    volumeSeries, legendElement, legendHtml, currentPrice,
                    priceChange, previousCandleCount, isInitialLoad,
                    previousPrice, elapsed, polls, isConnected, thrown,
                    sdkDestroyCalls, chartRemoveCalls, destroyed,
                    subscribeCalls, waitResult >>

\* What "this.sdk.subscribe(tokenId)" throws when this.sdk is null
TypeErrorOnNullSdk == "TypeError: this.sdk is null"

\* The continuation of the wait subscribing to a token of its own
AfterWait_OtherToken(connected) ==
    IF ~connected
    THEN /\ calls' = << >>
         /\ UNCHANGED << thrown, subscribeCalls >>
    ELSE IF sdk = Null
    THEN /\ thrown' = TypeErrorOnNullSdk
         /\ calls' = << >>
         /\ UNCHANGED subscribeCalls
    ELSE /\ subscribeCalls' = Append(subscribeCalls, "1-0xother")
         /\ calls' = << Call("subscribe", "sdk", "1-0xother") >>
         /\ UNCHANGED thrown

\* The continuation of "await this.waitForWebSocketConnection(this.sdk)":
\* what it does with the value the wait resolved with.
AfterWait(connected) ==
    IF ~connected
    THEN /\ calls' = << >>
         /\ UNCHANGED << thrown, subscribeCalls >>
    ELSE IF sdk = Null
    THEN /\ thrown' = TypeErrorOnNullSdk
         /\ calls' = << >>
         /\ UNCHANGED subscribeCalls
    ELSE /\ subscribeCalls' = Append(subscribeCalls, options.tokenId)
         /\ calls' = << Call("subscribe", "sdk", options.tokenId) >>
         /\ UNCHANGED thrown

\* checkConnection() giving up on reaching the ceiling
checkConnection_GivesUpAtCeiling(connected, sinceStart) ==
    IF connected THEN "true"
    ELSE IF sinceStart >= maxWaitMs THEN "false"
    ELSE "pending"

\* checkConnection() taking the end of the wait for a connection
checkConnection_CeilingConnects(connected, sinceStart) ==
    IF connected \/ sinceStart > maxWaitMs THEN "true" ELSE "pending"

\* checkConnection(): "true", "false", or "pending" when it sets the next timer
checkConnection(connected, sinceStart) ==
    IF connected THEN "true"
    ELSE IF sinceStart > maxWaitMs THEN "false"
    ELSE "pending"

\* The timer of loadTokenData() fires: the first checkConnection() runs at
\* once, in the same task.
DelayElapsed ==
    /\ pc = "delay"
    /\ ev' = [ kind |-> "delayElapsed", sdkWas |-> sdk ]
    /\ IF sdk = Null
       THEN /\ pc' = "done"
            /\ calls' = << >>
            /\ UNCHANGED << elapsed, waitResult, thrown, subscribeCalls >>
       ELSE LET r == checkConnection(isConnected, 0)
            IN  /\ elapsed' = 0
                /\ waitResult' = (IF r = "pending" THEN waitResult ELSE r)
                /\ pc' = (IF r = "pending" THEN "poll" ELSE "done")
                /\ IF r = "pending"
                   THEN calls' = << >> /\ UNCHANGED << thrown, subscribeCalls >>
                   ELSE AfterWait(r = "true")
    /\ UNCHANGED << options, sdk, widgetFields, polls, isConnected,
                    sdkDestroyCalls, chartRemoveCalls, destroyed >>

\* setTimeout(checkConnection, 100) fires, delay ms after it was set.  The
\* clock moves with every timer, so the polls end of themselves behind the
\* ceiling: 51 of them at most.
Poll(delay) ==
    /\ pc = "poll"
    /\ LET r == checkConnection(isConnected, elapsed + delay)
       IN  /\ elapsed' = elapsed + delay
           /\ polls' = polls + 1
           /\ waitResult' = (IF r = "pending" THEN waitResult ELSE r)
           /\ pc' = (IF r = "pending" THEN "poll" ELSE "done")
           /\ IF r = "pending"
              THEN calls' = << >> /\ UNCHANGED << thrown, subscribeCalls >>
              ELSE AfterWait(r = "true")
    /\ ev' = [ kind |-> "poll", sdkWas |-> sdk ]
    /\ UNCHANGED << options, sdk, widgetFields, isConnected, sdkDestroyCalls,
                    chartRemoveCalls, destroyed >>

\* destroy().  What the destroyed SDK reports as isConnected afterwards is
\* the SDK's affair: it may drop the flag at once or keep it until the
\* socket has closed.
destroy ==
    /\ destroyed' = TRUE
    /\ sdk' = Null
    /\ chart' = Null
    /\ sdkDestroyCalls' = (IF sdk # Null THEN sdkDestroyCalls + 1 ELSE sdkDestroyCalls)
    /\ chartRemoveCalls' = (IF chart # Null THEN chartRemoveCalls + 1 ELSE chartRemoveCalls)
    /\ calls' = (IF sdk # Null THEN << Call("destroy", "sdk", << >>) >> ELSE << >>)
                \o (IF chart # Null THEN << Call("remove", "chart", << >>) >> ELSE << >>)
    /\ isConnected' \in { isConnected, FALSE }
    /\ ev' = [ kind |-> "destroy" ]
    /\ UNCHANGED << options, candlestickSeries, lineSeries, volumeSeries,
                    legendElement, legendHtml, chartData, currentPrice,
                    priceChange, previousCandleCount, isInitialLoad,
                    previousPrice, pc, elapsed, polls, thrown, subscribeCalls,
                    waitResult >>

Sizes == { [ width |-> 800, height |-> 600 ] }

\* resize() without its test of this.chart
resize_Unguarded(size) ==
    /\ calls' = << Call("applyOptions", "chart", size) >>
    /\ ev' = [ kind |-> "resize" ]
    /\ UNCHANGED << options, sdk, widgetFields, pc, elapsed, polls, isConnected,
                    thrown, sdkDestroyCalls, chartRemoveCalls, destroyed,
                    subscribeCalls, waitResult >>

resize(size) ==
    /\ calls' = (IF chart # Null THEN << Call("applyOptions", "chart", size) >> ELSE << >>)
    /\ ev' = [ kind |-> "resize" ]
    /\ UNCHANGED << options, sdk, widgetFields, pc, elapsed, polls, isConnected,
                    thrown, sdkDestroyCalls, chartRemoveCalls, destroyed,
                    subscribeCalls, waitResult >>

\* updateVolumeSeries(): a private method no other method calls.
updateVolumeSeries ==
    /\ pc # "initializeChart"
    /\ IF chart = Null
       THEN calls' = << >> /\ UNCHANGED volumeSeries
       ELSE IF options.showVolume
       THEN /\ volumeSeries' = "series"
            /\ calls' = (IF volumeSeries = Null
                           THEN << Call("addSeries", "chart", "volume") >> ELSE << >>)
                        \o (IF Len(chartData.candles) > 0
                              THEN << Call("setData", "volume",
                                           MapSeq(convertCandleToVolumeData,
                                                  chartData.candles)) >>
                            ELSE << >>)
                        \o << Call("applyOptions", "chart", "leftPriceScale") >>
       ELSE /\ volumeSeries' = Null
            /\ calls' = (IF volumeSeries # Null
                           THEN << Call("removeSeries", "chart", "volume") >> ELSE << >>)
                        \o << Call("applyOptions", "chart", "leftPriceScale") >>
    /\ ev' = [ kind |-> "updateVolumeSeries" ]
    /\ UNCHANGED << options, sdk, chart, candlestickSeries, lineSeries,
                    legendElement, legendHtml, chartData, currentPrice,
                    priceChange, previousCandleCount, isInitialLoad,
                    previousPrice, pc, elapsed, polls, isConnected, thrown,
                    sdkDestroyCalls, chartRemoveCalls, destroyed,
                    subscribeCalls, waitResult >>

-----------------------------------------------------------------------------
(* The SDK's callbacks, registered by initializeSDK().                     *)

\* The SDK has been given the token: it may deliver snapshots and trades,
\* and events still in flight are delivered after destroy() as well.
DataFlows == pc \in { "history", "delay", "poll", "done", "loadFailed" }

\* Tasks of the event loop run behind the continuation of initialize().
CallbacksRun == pc # "initializeChart"

OnChartUpdate(data) == DataFlows /\ handleChartUpdate(data)

OnTrade(trade) == DataFlows /\ handleTrade(trade)

OnError(error) ==
    /\ CallbacksRun
    /\ chartData' = [ chartData EXCEPT !.error = error ]
    /\ calls' = Notify("onError", error)
    /\ ev' = [ kind |-> "sdkError", error |-> error ]
    /\ UNCHANGED << options, sdk, chart, candlestickSeries, lineSeries,
                    volumeSeries, legendElement, legendHtml, currentPrice,
                    priceChange, previousCandleCount, isInitialLoad,
                    previousPrice, pc, elapsed, polls, isConnected, thrown,
                    sdkDestroyCalls, chartRemoveCalls, destroyed,
                    subscribeCalls, waitResult >>

\* The transport changes state; a destroyed SDK only closes.
OnConnectionChange(status) ==
    /\ CallbacksRun
    /\ sdkDestroyCalls > 0 => status = "disconnected"
    /\ isConnected' = (status = "connected")
    /\ calls' = Notify("onConnectionChange", status)
    /\ ev' = [ kind |-> "connectionChange", status |-> status ]
    /\ UNCHANGED << options, sdk, widgetFields, pc, elapsed, polls, thrown,
                    sdkDestroyCalls, chartRemoveCalls, destroyed,
                    subscribeCalls, waitResult >>

\* A bar that no stored candle stands behind: one the series has kept from
\* an earlier snapshot.
StaleBar == convertCandleToChartData(MkCandle(0, 1, << >>))

\* What the chart may report to the crosshair handler: the pointer off the
\* chart, over the bar of a stored candle, or over a bar kept from before
\* (on a line chart the candlestick series has no bar to report).
CrosshairParams ==
    { [ time |-> << >>, data |-> << >> ] }
    \cup { [ time |-> << bar.time >>,
             data |-> IF candlestickSeries # Null THEN << bar >> ELSE << >> ] :
             bar \in { convertCandleToChartData(chartData.candles[i]) :
                         i \in 1 .. Len(chartData.candles) } \cup { StaleBar } }

\* The handler initializeChart() subscribes to the crosshair of the chart.
OnCrosshairMove(param) ==
    /\ CallbacksRun
    /\ chart # Null
    /\ LegendCreated
    /\ IF options.legendStyle = "complex" /\ LegendWrites(legendElement, chart)
       THEN /\ legendHtml' = [ LegendMarkup(currentPrice, priceChange) EXCEPT
                                 !.ohlc = ohlcHtml(param, chartData.candles,
                                                   candlestickSeries) ]
            /\ calls' = << Call("innerHTML", "legend", legendHtml') >>
       ELSE /\ calls' = << >>
            /\ UNCHANGED legendHtml
    /\ ev' = [ kind |-> "crosshairMove", param |-> param ]
    /\ UNCHANGED << options, sdk, chart, candlestickSeries, lineSeries,
                    volumeSeries, legendElement, chartData, currentPrice,
                    priceChange, previousCandleCount, isInitialLoad,
                    previousPrice, pc, elapsed, polls, isConnected, thrown,
                    sdkDestroyCalls, chartRemoveCalls, destroyed,
                    subscribeCalls, waitResult >>

-----------------------------------------------------------------------------
(* The state create(options) returns with: the constructor has merged the  *)
(* defaults and initializeSDK() has run to its end (it awaits nothing):    *)
(* the SDK is built, its callbacks registered, connectWebSocket() called.  *)
Created(optionSet) ==
    /\ options \in optionSet
    /\ sdk = "live"
    /\ chart = Null
    /\ candlestickSeries = Null
    /\ lineSeries = Null
    /\ volumeSeries = Null
    /\ legendElement = Null
    /\ legendHtml = << >>
    /\ chartData = EmptyChartData
    /\ currentPrice = NoPrice
    /\ priceChange = 0
    /\ previousCandleCount = 0
    /\ isInitialLoad = TRUE
    /\ previousPrice = 0
    /\ pc = "initializeChart"
    /\ elapsed = 0
    /\ polls = 0
    /\ isConnected = FALSE
    /\ calls = << Call("connectWebSocket", "sdk", << >>) >>
    /\ ev = [ kind |-> "create" ]
    /\ thrown = "none"
    /\ sdkDestroyCalls = 0
    /\ chartRemoveCalls = 0
    /\ destroyed = FALSE
    /\ subscribeCalls = << >>
    /\ waitResult = "none"

\* create() with the callbacks supplied
Init == Created({ o \in OptionSets : o.hasCallbacks })

\* create() with any options
InitWait == Created(OptionSets)

\* create() with any legend style
InitLegend == Created(LegendOptionSets)

\* The widget with the SDK delivering snapshots and trades.  The steps of
\* the subscribe-wait are left to SpecWait: they read and write pc, elapsed,
\* polls, waitResult, isConnected, subscribeCalls and thrown, none of
\* which the data handlers read or write.
Next ==
    \/ InitializeChart
    \/ destroy
    \/ updateVolumeSeries
    \/ \E data \in Snapshots : OnChartUpdate(data)
    \/ \E trade \in Trades : OnTrade(trade)

Spec == Init /\ [][Next]_vars

\* The widget from create() to the end of the subscribe-wait, with the
\* transport connecting, dropping and failing, and no market data.
NextWait ==
    \/ InitializeChart
    \/ HistoryLoaded
    \/ \E e \in LoadErrors : HistoryFailed(e)
    \/ DelayElapsed
    \/ \E d \in PollDelays : Poll(d)
    \/ destroy
    \/ \E size \in Sizes : resize(size)
    \/ \E error \in SdkErrors : OnError(error)
    \/ \E status \in ConnectionStatuses : OnConnectionChange(status)

SpecWait == InitWait /\ [][NextWait]_vars

\* The same with the timers of the wait firing: a timer that has been set
\* fires after its delay, whatever else the event loop runs.
SpecWaitFair == SpecWait /\ WF_vars(\E d \in PollDelays : Poll(d))

\* The widget with its legend watched: short snapshots and trades arrive,
\* the pointer moves over the chart, and the SDK reports errors.
NextLegend ==
    \/ InitializeChart
    \/ \E data \in LegendSnapshots : OnChartUpdate(data)
    \/ \E trade \in Trades : OnTrade(trade)
    \/ \E param \in CrosshairParams : OnCrosshairMove(param)
    \/ \E error \in SdkErrors : OnError(error)

SpecLegend == InitLegend /\ [][NextLegend]_vars

-----------------------------------------------------------------------------
(* What the claims speak of.                                               *)

SeriesNames == { "candlestick", "line", "volume" }

SeriesHandle(name) ==
    IF name = "candlestick" THEN candlestickSeries
    ELSE IF name = "line" THEN lineSeries
    ELSE volumeSeries

\* The series the widget holds a handle of
ActiveSeries == { name \in SeriesNames : SeriesHandle(name) # Null }

\* How often the last task called op on the collaborator on
CountCalls(op, on) ==
    Cardinality({ i \in 1 .. Len(calls) : calls[i].op = op /\ calls[i].on = on })

NoCalls(op) == \A i \in 1 .. Len(calls) : calls[i].op # op

IsSnapshotTask == ev.kind = "chartUpdate"

SnapshotDiff == ev.currentCount - ev.previousCount

FullReplaceOnHeldSeries ==
    /\ \A name \in ActiveSeries : CountCalls("setData", name) = 1
    /\ NoCalls("update")

-----------------------------------------------------------------------------
(* C1 as stated: a snapshot that is not the first delivery and has 0 or 1  *)
(* candles more than the previous one makes exactly one update() call on   *)
(* each active series and no setData() call.                               *)
C1_Original ==
    (IsSnapshotTask /\ ~ev.wasInitialLoad /\ SnapshotDiff \in { 0, 1 })
        => /\ \A name \in ActiveSeries : CountCalls("update", name) = 1
           /\ NoCalls("setData")

(* C1 amended: the same for snapshots that hold at least one candle; an    *)
(* empty snapshot following an empty one makes no call on any series.      *)
C1_SinglePointUpdate ==
    /\ (IsSnapshotTask /\ ~ev.wasInitialLoad /\ SnapshotDiff \in { 0, 1 }
          /\ ev.currentCount >= 1)
         => /\ \A name \in ActiveSeries : CountCalls("update", name) = 1
            /\ NoCalls("setData")
    /\ (IsSnapshotTask /\ ev.currentCount = 0)
         => NoCalls("update") /\ NoCalls("setData")

C1_Witness ==
    /\ IsSnapshotTask /\ ~ev.wasInitialLoad
    /\ SnapshotDiff = 1 /\ ev.previousCount = MAX_INCREMENTAL_CANDLES
    /\ ActiveSeries = { "candlestick", "volume" }
    /\ CountCalls("update", "candlestick") = 1
    /\ CountCalls("update", "volume") = 1

(* C2 as stated: a snapshot that is the first delivery, or has fewer       *)
(* candles than the previous one, or over 50 more, makes a setData() call  *)
(* on every active series and a fitContent() call.                         *)
C2_Original ==
    (IsSnapshotTask
       /\ (ev.wasInitialLoad \/ SnapshotDiff < 0 \/ SnapshotDiff > MAX_INCREMENTAL_CANDLES))
        => /\ \A name \in ActiveSeries : CountCalls("setData", name) >= 1
           /\ CountCalls("fitContent", "timeScale") >= 1

(* C2 amended: such a snapshot, if it holds at least one candle, makes one *)
(* setData() call on every series the widget holds and no update(), and    *)
(* one fitContent() call if the widget still holds its chart (none after   *)
(* destroy()); an empty snapshot makes neither call.                       *)
C2_FullReplace ==
    (IsSnapshotTask
       /\ (ev.wasInitialLoad \/ SnapshotDiff < 0 \/ SnapshotDiff > MAX_INCREMENTAL_CANDLES))
        => IF ev.currentCount >= 1
           THEN /\ FullReplaceOnHeldSeries
                /\ CountCalls("fitContent", "timeScale") = (IF chart # Null THEN 1 ELSE 0)
           ELSE NoCalls("setData") /\ NoCalls("fitContent")

C2_Witness ==
    /\ IsSnapshotTask /\ ~ev.wasInitialLoad
    /\ SnapshotDiff > MAX_INCREMENTAL_CANDLES
    /\ chart # Null
    /\ ActiveSeries = { "line", "volume" }
    /\ CountCalls("setData", "line") = 1
    /\ CountCalls("setData", "volume") = 1
    /\ CountCalls("fitContent", "timeScale") = 1

-----------------------------------------------------------------------------
IsTradeStep == ev'.kind = "trade"

\* The trade of the step falls in the merge window of the last candle held
\* before the step.
TradeInWindow ==
    LET n == Len(chartData.candles)
        T == MinuteBucket(ev'.trade.TradeTime)
    IN  /\ n > 0
        /\ 0 <= T - chartData.candles[n].Timestamp
        /\ T - chartData.candles[n].Timestamp <= 120

LastCandleReplaced ==
    LET n == Len(chartData.candles)
    IN  /\ Len(chartData'.candles) = n
        /\ \A i \in 1 .. n - 1 : chartData'.candles[i] = chartData.candles[i]
        /\ chartData'.candles[n] # chartData.candles[n]

(* C4: handleTrade merges a trade into the last candle if and only if the  *)
(* candle sequence is not empty and the trade's minute bucket lies 0 to    *)
(* 120 seconds after the last candle's timestamp: then the last candle is  *)
(* replaced and update() is called; otherwise the candle sequence is       *)
(* unchanged and no series update() is called.                             *)
C4_MergeIffInWindow ==
    [][ IsTradeStep =>
          IF TradeInWindow
          THEN /\ LastCandleReplaced
               /\ \A name \in ActiveSeries' : CountCalls("update", name)' = 1
               /\ ev'.merged
          ELSE /\ chartData'.candles = chartData.candles
               /\ NoCalls("update")'
               /\ ~ev'.merged ]_vars

\* A trade at the far end of the window (120 seconds) has been merged, and
\* the price series updated.
C4_Witness ==
    /\ ev.kind = "trade" /\ ev.merged
    /\ MinuteBucket(ev.trade.TradeTime) - ev.latestCandle[1].Timestamp = MergeWindowSeconds
    /\ chartData.candles[Len(chartData.candles)].ClosePrice = ev.trade.Price
    /\ CountCalls("update", "line") = 1

(* C5: a merged trade leaves a last candle with ClosePrice the trade       *)
(* price, HighPrice and LowPrice the maximum and minimum of the old value  *)
(* and the trade price, VolumeIn raised by the trade's USD, VolumeOut by   *)
(* its Amount, TransactionCount (0 if absent) by one, Timestamp and        *)
(* OpenPrice unchanged, and exactly one update() on each active series.    *)
C5_MergedCandle ==
    [][ (IsTradeStep /\ TradeInWindow) =>
          LET n == Len(chartData.candles)
              old == chartData.candles[n]
              new == chartData'.candles[n]
              t == ev'.trade
          IN  /\ new.ClosePrice = t.Price
              /\ new.HighPrice = (IF old.HighPrice > t.Price THEN old.HighPrice ELSE t.Price)
              /\ new.LowPrice = (IF old.LowPrice < t.Price THEN old.LowPrice ELSE t.Price)
              /\ new.VolumeIn = old.VolumeIn + t.USD
              /\ new.VolumeOut = old.VolumeOut + t.Amount
              /\ new.TransactionCount =
                   << (IF old.TransactionCount = << >> THEN 0
                       ELSE old.TransactionCount[1]) + 1 >>
              /\ new.Timestamp = old.Timestamp
              /\ new.OpenPrice = old.OpenPrice
              /\ \A name \in ActiveSeries' : CountCalls("update", name)' = 1
              /\ currentPrice' = << t.Price >> ]_vars

\* A trade over the old high has been merged into a candle without a
\* TransactionCount, and both series updated.
C5_Witness ==
    /\ ev.kind = "trade" /\ ev.merged
    /\ ev.latestCandle[1].TransactionCount = << >>
    /\ ev.trade.Price > ev.latestCandle[1].HighPrice
    /\ chartData.candles[Len(chartData.candles)].HighPrice = ev.trade.Price
    /\ chartData.candles[Len(chartData.candles)].TransactionCount = << 1 >>
    /\ CountCalls("update", "candlestick") = 1
    /\ CountCalls("update", "volume") = 1

(* C6 as stated: once destroy() has been called the widget holds neither   *)
(* a live SDK nor a live chart, whenever destroy() was called.             *)
C6_DestroyedIsTerminal == destroyed => (sdk = Null /\ chart = Null)

(* C7 as stated: once destroy() has removed the chart, no SDK callback     *)
(* makes a setData() or update() call on a series (every series belongs to *)
(* the one chart the widget ever creates).                                 *)
C7_NoSeriesCallAfterDestroy ==
    chartRemoveCalls > 0 => (NoCalls("setData") /\ NoCalls("update"))

(* C8: subscribe(tokenId) is called only by the task that ends the wait,   *)
(* behind the history request and the timer of loadTokenData, with the     *)
(* SDK held and reporting isConnected; a wait that passes its ceiling of   *)
(* 5000 ms unconnected resolves false, and then no subscribe() is called,  *)
(* onError is not called and nothing is thrown, nor is subscribe() called  *)
(* at any later time.                                                      *)
C8_SubscribeOnlyWhenConnected ==
    [][ /\ (subscribeCalls' # subscribeCalls) =>
              /\ pc \in { "delay", "poll" }
              /\ isConnected
              /\ sdk # Null
              /\ waitResult' = "true"
              /\ subscribeCalls' = Append(subscribeCalls, options.tokenId)
        /\ (waitResult' = "false" /\ waitResult # "false") =>
              /\ elapsed' > 5000
              /\ ~isConnected
              /\ subscribeCalls' = subscribeCalls
              /\ thrown' = thrown
              /\ NoCalls("onError")' /\ NoCalls("subscribe")'
        /\ (waitResult = "false") =>
              subscribeCalls' = subscribeCalls /\ waitResult' = "false" ]_vars

\* The wait has passed its ceiling without a connection and given up.
C8_Witness ==
    /\ ev.kind = "poll" /\ pc = "done"
    /\ waitResult = "false"
    /\ elapsed > maxWaitMs
    /\ subscribeCalls = << >>
    /\ thrown = "none"

(* C9 as stated: with destroy() called while the timer of loadTokenData or *)
(* a poll of the wait is pending, the pending task never dereferences the  *)
(* cleared this.sdk and never calls subscribe().                           *)
C9_PendingWaitSafeAfterDestroy ==
    /\ thrown # TypeErrorOnNullSdk
    /\ (ev.kind \in { "delayElapsed", "poll" } /\ ev.sdkWas = Null) => NoCalls("subscribe")

HandlesMatchOptions ==
    /\ (candlestickSeries # Null) <=> (options.priceSeriesType = "candle")
    /\ (lineSeries # Null) <=> (options.priceSeriesType = "line")
    /\ ~(candlestickSeries # Null /\ lineSeries # Null)
    /\ (volumeSeries # Null) <=> options.showVolume

-----------------------------------------------------------------------------
(* C11 as stated: when the container option resolves to no element,        *)
(* create() throws the container-not-found error to its caller, so that in *)
(* no state behind create() does a widget exist that holds a constructed   *)
(* SDK.  (Every state of the model is one behind the return of create().)  *)
C11_ContainerNotFoundFailsFast ==
    ~options.container => (thrown = "Chart container not found" /\ sdk = Null)

-----------------------------------------------------------------------------
IsLoadFailureStep == ev'.kind = "historyFailed"

\* What the catch of loadTokenData() does with the failure, the handles
\* apart: the message is stored with isLoading false and the candles as
\* they were (none), onError is called once with it if supplied and not at
\* all if not, nothing is thrown and no subscribe() is called.
LoadFailureHandled ==
    /\ chartData'.error = ev'.error
    /\ chartData'.isLoading = FALSE
    /\ chartData'.candles = chartData.candles
    /\ chartData'.candles = << >>
    /\ CountCalls("onError", "options")' = (IF options.hasCallbacks THEN 1 ELSE 0)
    /\ \A i \in 1 .. Len(calls') : calls'[i].op = "onError" => calls'[i].arg = ev'.error
    /\ NoCalls("subscribe")'
    /\ subscribeCalls' = subscribeCalls
    /\ thrown' = thrown
    /\ pc' = "loadFailed"

\* Behind a failed load no timer is pending: subscribe() is never called.
NoSubscribeAfterLoadFailure ==
    pc = "loadFailed" => (pc' = "loadFailed" /\ subscribeCalls' = subscribeCalls)

-----------------------------------------------------------------------------
IsTradeTask == ev.kind = "trade"

(* C14: every trade handleTrade is given is passed to the onTrade callback *)
(* exactly once, as it came, whether it was merged into the last candle,   *)
(* fell outside the merge window, or found no candle at all.               *)
C14_TradeCallbackAlways ==
    IsTradeTask =>
        /\ CountCalls("onTrade", "options") = 1
        /\ \A i \in 1 .. Len(calls) :
             calls[i].op = "onTrade" => (calls[i].arg = ev.trade /\ i = Len(calls))

\* A trade behind the merge window of the last candle has left the candles
\* alone and has reached onTrade.
C14_Witness ==
    /\ IsTradeTask /\ ~ev.merged
    /\ ev.latestCandle # << >>
    /\ MinuteBucket(ev.trade.TradeTime) - ev.latestCandle[1].Timestamp > MergeWindowSeconds
    /\ NoCalls("update")
    /\ CountCalls("onTrade", "options") = 1

-----------------------------------------------------------------------------
\* The last task was the first snapshot delivered to a line chart with a
\* volume series, and it held at least one candle.
FirstSnapshotOnLineWithVolume ==
    /\ IsSnapshotTask /\ ev.wasInitialLoad /\ ev.currentCount >= 1
    /\ options.priceSeriesType = "line" /\ options.showVolume
    /\ lineSeries # Null /\ volumeSeries # Null /\ chart # Null

\* The indices of the calls of op on the series named
CallsAt(callSeq, op, on) ==
    { i \in 1 .. Len(callSeq) : callSeq[i].op = op /\ callSeq[i].on = on }

(* C15: on a line chart with showVolume, a first snapshot of N >= 1        *)
(* candles is one setData() of N points on the line series, then one of N  *)
(* points on the volume series, and no update(); a trade that follows it   *)
(* with its minute bucket 0 to 120 seconds after the last candle is then   *)
(* exactly one update() on the line series and one on the volume series,   *)
(* with the point of the merged candle (the trade price; the volume raised *)
(* by the trade's USD), and leaves the trade price as the current price of *)
(* the widget and of the legend, where there is one.                       *)
C15_SnapshotThenTrade ==
    [][ (FirstSnapshotOnLineWithVolume /\ IsTradeStep /\ TradeInWindow) =>
          LET N == ev.currentCount
              last == chartData.candles[N]
              t == ev'.trade
              shifted == last.Timestamp - GetTimezoneOffset(last.Timestamp) * 60
              lineAt == CallsAt(calls', "update", "line")
              volumeAt == CallsAt(calls', "update", "volume")
          IN  /\ Len(chartData.candles) = N
              /\ CallsAt(calls, "setData", "line") = { 1 }
              /\ CallsAt(calls, "setData", "volume") = { 2 }
              /\ Len(calls[1].arg) = N /\ Len(calls[2].arg) = N
              /\ \A i \in 1 .. Len(calls) : calls[i].op # "update"
              /\ Cardinality(lineAt) = 1 /\ Cardinality(volumeAt) = 1
              /\ \A i \in lineAt : \A k \in volumeAt :
                   /\ i < k
                   /\ calls'[i].arg = [ time |-> shifted, value |-> t.Price ]
                   /\ calls'[k].arg.time = shifted
                   /\ calls'[k].arg.value = last.VolumeIn + t.USD
              /\ \A i \in 1 .. Len(calls') : calls'[i].op # "setData"
              /\ chartData'.candles[N].ClosePrice = t.Price
              /\ currentPrice' = << t.Price >>
              /\ options.legendStyle # "none" =>
                   legendHtml'.price = << "fixed2", t.Price, 0 >> ]_vars

\* On a line chart with a volume series and a legend, a trade has been
\* merged into the last of 50 candles: both series were updated and the
\* legend shows the trade price.
C15_Witness ==
    /\ IsTradeTask /\ ev.merged
    /\ options.priceSeriesType = "line" /\ options.showVolume
    /\ options.legendStyle = "complex"
    /\ previousCandleCount = MAX_INCREMENTAL_CANDLES
    /\ chart # Null
    /\ CountCalls("update", "line") = 1 /\ CountCalls("update", "volume") = 1
    /\ legendHtml # << >>
    /\ legendHtml.price = << "fixed2", ev.trade.Price, 0 >>
    /\ currentPrice = << ev.trade.Price >>

-----------------------------------------------------------------------------
\* The timestamps of a candle sequence never decrease
TimestampsAscend(candles) ==
    \A i \in 1 .. Len(candles) - 1 : candles[i].Timestamp <= candles[i + 1].Timestamp

(* C16: the stored candle sequence changes only in a snapshot task, which  *)
(* replaces it whole, and in a trade task that merges, which replaces its  *)
(* last element; a trade task never changes the number of candles, nor a   *)
(* candle other than the last, nor the Timestamp of the last, and so       *)
(* leaves a sequence of ascending timestamps ascending.                    *)
C16_CandlesChangeOnlyBySnapshotOrMerge ==
    [][ LET old == chartData.candles
            new == chartData'.candles
        IN  /\ new # old =>
                 \/ ev'.kind = "chartUpdate"
                 \/ ev'.kind = "trade" /\ ev'.merged
            /\ IsTradeStep =>
                 /\ Len(new) = Len(old)
                 /\ \A i \in 1 .. Len(old) - 1 : new[i] = old[i]
                 /\ Len(old) > 0 => new[Len(old)].Timestamp = old[Len(old)].Timestamp
                 /\ ~ev'.merged => new = old
                 /\ TimestampsAscend(old) => TimestampsAscend(new) ]_vars

\* A trade of a later minute has been merged into the last of 51 candles,
\* which keeps its timestamp.
C16_Witness ==
    /\ IsTradeTask /\ ev.merged
    /\ Len(chartData.candles) = MAX_INCREMENTAL_CANDLES + 1
    /\ MinuteBucket(ev.trade.TradeTime) > ev.latestCandle[1].Timestamp
    /\ chartData.candles[Len(chartData.candles)] # ev.latestCandle[1]
    /\ chartData.candles[Len(chartData.candles)].Timestamp = ev.latestCandle[1].Timestamp
    /\ TimestampsAscend(chartData.candles)

-----------------------------------------------------------------------------
\* The point a series is given for a candle is the candle's: the time is
\* the Timestamp moved by the viewer's offset from UTC at that date, a bar
\* carries the four prices, a line point the close, a volume point VolumeIn
\* with the up colour if and only if the close is not under the open.
PointIsOfCandle(name, point, candle) ==
    /\ point.time = candle.Timestamp - GetTimezoneOffset(candle.Timestamp) * 60
    /\ name = "candlestick" =>
         /\ point.open = candle.OpenPrice /\ point.high = candle.HighPrice
         /\ point.low = candle.LowPrice /\ point.close = candle.ClosePrice
    /\ name = "line" => point.value = candle.ClosePrice
    /\ name = "volume" =>
         /\ point.value = candle.VolumeIn
         /\ point.color \in { "#26a69a40", "#ef535040", "#00d4aa80", "#ff6b6b80" }
         /\ (point.color \in { "#26a69a40", "#00d4aa80" })
              <=> (candle.ClosePrice >= candle.OpenPrice)

(* C17: every point a task hands to a series is the point of its candle:   *)
(* setData() is given one point for each stored candle, in order, and      *)
(* update() the point of the last stored candle; bars carry the candle's   *)
(* open, high, low and close, line points its close, volume points its     *)
(* VolumeIn, coloured up if and only if ClosePrice >= OpenPrice; and the    *)
(* points of one candle carry the same time on every series, its Timestamp *)
(* shifted by the local offset from UTC.                                   *)
C17_AdapterFidelity ==
    \A k \in 1 .. Len(calls) :
        LET c == calls[k]
            n == Len(chartData.candles)
        IN  /\ (c.op = "setData" /\ c.on \in SeriesNames) =>
                 /\ Len(c.arg) = n
                 /\ \A i \in 1 .. n : PointIsOfCandle(c.on, c.arg[i], chartData.candles[i])
            /\ (c.op = "update" /\ c.on \in SeriesNames) =>
                 /\ n > 0
                 /\ PointIsOfCandle(c.on, c.arg, chartData.candles[n])

\* A trade under the open has been merged: the bar carries the new close
\* and low, and the volume point of the same time has the down colour.
C17_Witness ==
    /\ IsTradeTask /\ ev.merged
    /\ ev.trade.Price < ev.latestCandle[1].OpenPrice
    /\ \E k \in 1 .. Len(calls) :
         /\ calls[k].op = "update" /\ calls[k].on = "candlestick"
         /\ calls[k].arg.close = ev.trade.Price
         /\ calls[k].arg.open = ev.latestCandle[1].OpenPrice
         /\ calls[k].arg.time = ev.latestCandle[1].Timestamp + 7200
         /\ \E m \in 1 .. Len(calls) :
              /\ calls[m].op = "update" /\ calls[m].on = "volume"
              /\ calls[m].arg.color = "#ef535040"
              /\ calls[m].arg.time = calls[k].arg.time

-----------------------------------------------------------------------------
IsSdkErrorStep == ev'.kind = "sdkError"

(* C13: an error the SDK delivers to its error callback is passed to       *)
(* onError, if supplied, exactly once and as the same string, and the task *)
(* changes nothing of the widget but chartData.error, which becomes that   *)
(* string: the candles, the handles, the legend, the price state and the   *)
(* state of the reconciler stay as they are.                               *)
C13_SdkErrorForwardedVerbatim ==
    [][ IsSdkErrorStep =>
          /\ calls' = (IF options.hasCallbacks
                       THEN << [ op |-> "onError", on |-> "options", arg |-> ev'.error ] >>
                       ELSE << >>)
          /\ chartData'.error = ev'.error
          /\ chartData'.candles = chartData.candles
          /\ chartData'.lastUpdate = chartData.lastUpdate
          /\ chartData'.isLoading = chartData.isLoading
          /\ UNCHANGED << sdk, chart, candlestickSeries, lineSeries, volumeSeries,
                          legendElement, legendHtml, currentPrice, priceChange,
                          previousPrice, previousCandleCount, isInitialLoad,
                          thrown >> ]_vars

\* An SDK error has arrived on a chart that shows two candles and a legend.
C13_Witness ==
    /\ ev.kind = "sdkError"
    /\ chartData.error = ev.error
    /\ ev.error = "Max reconnect attempts reached"
    /\ Len(chartData.candles) = 2
    /\ currentPrice # NoPrice
    /\ legendHtml # << >>
    /\ calls = << [ op |-> "onError", on |-> "options", arg |-> ev.error ] >>

-----------------------------------------------------------------------------
\* The legends the last task rendered
RenderedLegends == { calls[k].arg : k \in CallsAt(calls, "innerHTML", "legend") }

\* The stored candles under the pointer of the last crosshair event
HoveredCandles ==
    { c \in { chartData.candles[i] : i \in 1 .. Len(chartData.candles) } :
        ev.param.time = << c.Timestamp - GetTimezoneOffset(c.Timestamp) * 60 >> }

(* C18: in every legend updateLegend renders, the price is the placeholder *)
(* "--" if (and only if) the current price is null; the 24h change has the *)
(* up colour when it is zero or over and the down colour when it is under  *)
(* zero; and with the pointer on a candle that opens at 0 or under, the    *)
(* change and the fluctuation of the bar are shown as 0 percent.           *)
C18_LegendRendering ==
    \A h \in RenderedLegends :
        /\ (h.price = << "--" >>) <=> (currentPrice = NoPrice)
        /\ priceChange >= 0 =>
             h.rateColor = (IF options.theme = "dark" THEN "#00d4aa" ELSE "#26a69a")
        /\ priceChange < 0 =>
             h.rateColor = (IF options.theme = "dark" THEN "#ff6b6b" ELSE "#ef5350")
        /\ (ev.kind = "crosshairMove" /\ h.ohlc # << >>) =>
             \A c \in HoveredCandles :
                 c.OpenPrice <= 0 =>
                     /\ h.ohlc[1].change = << << "fixed2%", 0, 0 >> >>
                     /\ h.ohlc[1].fluctuation = << << "fixed2%", 0, 0 >> >>

\* The pointer is on a candle that opens at 0 while the 24h change is under
\* zero: the bar shows 0 percent twice, the 24h change the down colour.
C18_Witness ==
    /\ ev.kind = "crosshairMove"
    /\ \E c \in HoveredCandles : c.OpenPrice = 0 /\ c.HighPrice > c.LowPrice
    /\ priceChange < 0
    /\ legendHtml # << >>
    /\ legendHtml \in RenderedLegends
    /\ legendHtml.ohlc # << >>
    /\ legendHtml.ohlc[1].change = << << "fixed2%", 0, 0 >> >>
    /\ legendHtml.ohlc[1].fluctuation = << << "fixed2%", 0, 0 >> >>
    /\ legendHtml.rateColor = "#ef5350"

-----------------------------------------------------------------------------
\* A step in which checkConnection() runs: at once when the wait is called,
\* or from a timer.
IsCheckStep == polls' # polls \/ (pc = "delay" /\ pc' # "delay" /\ sdk # Null)

WaitPending == pc = "poll"

WaitResolved == pc = "done" /\ waitResult \in { "true", "false" }

(* C19: with the timers firing, every call of waitForWebSocketConnection   *)
(* resolves: a check that finds the SDK connected resolves it with true, a *)
(* check that finds it unconnected more than 5000 ms after the start       *)
(* resolves it with false, and any other check sets one more timer; once   *)
(* resolved, the wait makes no further check and keeps its result.         *)
C19_WaitResolves ==
    /\ WaitPending ~> WaitResolved
    /\ [][ /\ IsCheckStep =>
                 IF isConnected
                 THEN waitResult' = "true" /\ pc' = "done"
                 ELSE IF elapsed' > 5000
                 THEN waitResult' = "false" /\ pc' = "done"
                 ELSE waitResult' = "none" /\ pc' = "poll"
           /\ pc = "done" =>
                 /\ pc' = "done"
                 /\ polls' = polls /\ elapsed' = elapsed
                 /\ waitResult' = waitResult ]_vars

\* The SDK never connected and every timer fired on time: the 51st found
\* 5100 ms gone and resolved the wait with false.
C19_Witness ==
    /\ WaitResolved
    /\ waitResult = "false"
    /\ polls = 51
    /\ elapsed = 51 * PollIntervalMs
    /\ subscribeCalls = << >>

-----------------------------------------------------------------------------
(* C20: a snapshot without candles makes no setData(), update(),           *)
(* fitContent() or scrollToRealTime() call, and leaves the first-delivery  *)
(* flag cleared and the previous candle count at 0; the snapshot of N >= 1 *)
(* candles that follows it is therefore handled by its length alone: one   *)
(* update() on each series held and no setData() for N = 1, one setData()  *)
(* on each series held and no update() for N from 2 to 50 and for N over   *)
(* 50.                                                                     *)
C20_EmptySnapshot ==
    /\ (IsSnapshotTask /\ ev.currentCount = 0) =>
          /\ NoCalls("setData") /\ NoCalls("update")
          /\ NoCalls("fitContent") /\ NoCalls("scrollToRealTime")
          /\ ~isInitialLoad
          /\ previousCandleCount = 0
    /\ (IsSnapshotTask /\ ~ev.wasInitialLoad /\ ev.previousCount = 0
          /\ ev.currentCount >= 1) =>
          IF ev.currentCount = 1
          THEN /\ \A name \in ActiveSeries : CountCalls("update", name) = 1
               /\ NoCalls("setData")
          ELSE FullReplaceOnHeldSeries

\* A snapshot of one candle has followed an empty one and has been put on
\* the candlestick series by update().
C20_Witness ==
    /\ IsSnapshotTask /\ ~ev.wasInitialLoad
    /\ ev.previousCount = 0 /\ ev.currentCount = 1
    /\ candlestickSeries # Null
    /\ CountCalls("update", "candlestick") = 1
    /\ NoCalls("setData")

-----------------------------------------------------------------------------
\* The price as the legend prints it
ShownPrice(price) ==
    IF price = NoPrice THEN << "--" >> ELSE << "fixed2", price[1], 0 >>

-----------------------------------------------------------------------------
\* (last close - first open) / first open * 100 of a candle sequence
ChangeOfCandles(candles) ==
    ((candles[Len(candles)].ClosePrice - candles[1].OpenPrice) * 100)
        \div candles[1].OpenPrice

(* C22: the 24h change is set only by a snapshot of two candles or more    *)
(* whose first candle opens over 0, and then to (last close - first open)  *)
(* / first open * 100; a snapshot of no or one candle, a snapshot whose    *)
(* first candle opens at 0 or under, a trade (merged or not) and every     *)
(* other event leave the stored change as it is.                           *)
C22_PriceChangeOnlyBySnapshot ==
    [][ LET data == chartData'
        IN  IF /\ ev'.kind = "chartUpdate"
               /\ Len(data.candles) >= 2
               /\ data.candles[1].OpenPrice > 0
            THEN priceChange' = ChangeOfCandles(data.candles)
            ELSE priceChange' = priceChange ]_vars

\* A merged trade has moved the last close: the legend still shows the
\* change of the snapshot, which is no longer that of the candles held.
C22_Witness ==
    /\ IsTradeTask /\ ev.merged
    /\ Len(chartData.candles) = 2
    /\ chartData.candles[1].OpenPrice > 0
    /\ priceChange # ChangeOfCandles(chartData.candles)
    /\ legendHtml # << >>
    /\ legendHtml.rate24h = << "fixed2%", priceChange, 0 >>
    /\ legendHtml.price = << "fixed2", ev.trade.Price, 0 >>

-----------------------------------------------------------------------------
\* The calls a task makes on the series, the time scale and the legend
IsChartWork(call) ==
    call.op \in { "setData", "update", "fitContent", "scrollToRealTime", "innerHTML" }

(* C23: a snapshot task, that of an empty snapshot too, calls onDataUpdate *)
(* exactly once, with the snapshot it was given, as its last call: behind  *)
(* every call on the series, the time scale and the legend, and with the   *)
(* previous candle count already that of the snapshot; a trade task calls  *)
(* onTrade as its last call, behind the update() calls of the merge, with  *)
(* the merged candle already stored.                                       *)
C23_NotifiedAfterTheWork ==
    /\ IsSnapshotTask =>
         /\ CountCalls("onDataUpdate", "options") = 1
         /\ calls[Len(calls)] =
              [ op |-> "onDataUpdate", on |-> "options", arg |-> chartData ]
         /\ Len(chartData.candles) = ev.currentCount
         /\ \A i \in 1 .. Len(calls) - 1 : IsChartWork(calls[i])
         /\ previousCandleCount = ev.currentCount
    /\ IsTradeTask =>
         /\ calls[Len(calls)].op = "onTrade"
         /\ \A i \in 1 .. Len(calls) - 1 : IsChartWork(calls[i])
         /\ ev.merged =>
              chartData.candles[Len(chartData.candles)].ClosePrice = ev.trade.Price

\* An empty snapshot has come behind one with candles: it makes no call on
\* the chart, and onDataUpdate is told of it.
C23_Witness ==
    /\ IsSnapshotTask
    /\ ev.currentCount = 0 /\ ev.previousCount > 0
    /\ calls = << [ op |-> "onDataUpdate", on |-> "options", arg |-> chartData ] >>
    /\ chartData.candles = << >>

-----------------------------------------------------------------------------
\* destroy() has removed the chart
ChartRemoved == chartRemoveCalls > 0

-----------------------------------------------------------------------------
\* The task issues the history request: sdk.initialize(tokenId, true)
HistoryRequested == CountCalls("initialize", "sdk")' > 0

(* C25: in the life of a widget subscribe() is called at most once, with   *)
(* the tokenId of the options; it is called only by the task that ends the *)
(* wait, which is set up only by the resolution of sdk.initialize(), which *)
(* is requested once, by loadTokenData, for the tokenId of the options;    *)
(* and the task that requests it has set the first-delivery flag, the      *)
(* previous count to 0 and the candle sequence to empty.                   *)
C25_SubscribeOnceAfterHistory ==
    /\ [](/\ Len(subscribeCalls) <= 1
          /\ \A i \in 1 .. Len(subscribeCalls) : subscribeCalls[i] = options.tokenId
          /\ subscribeCalls # << >> => pc = "done")
    /\ [][ /\ subscribeCalls' # subscribeCalls =>
                 /\ pc \in { "delay", "poll" } /\ pc' = "done"
                 /\ calls' = << [ op |-> "subscribe", on |-> "sdk",
                                  arg |-> options.tokenId ] >>
           /\ (pc' = "poll" /\ pc # "poll") => pc = "delay"
           /\ (pc' = "delay" /\ pc # "delay") =>
                 pc = "history" /\ ev'.kind = "historyLoaded"
           /\ (pc' = "history" /\ pc # "history") => HistoryRequested
           /\ HistoryRequested =>
                 /\ pc = "initializeChart" /\ pc' = "history"
                 /\ calls'[Len(calls')] = [ op |-> "initialize", on |-> "sdk",
                                            arg |-> options.tokenId ]
                 /\ CountCalls("initialize", "sdk")' = 1
                 /\ isInitialLoad' = TRUE
                 /\ previousCandleCount' = 0
                 /\ chartData'.candles = << >> ]_vars

\* The transport connected while the wait was polling: the next poll ended
\* the wait and subscribed, once, to the token of the options.
C25_Witness ==
    /\ pc = "done" /\ waitResult = "true"
    /\ polls >= 1
    /\ subscribeCalls = << options.tokenId >>
    /\ calls = << [ op |-> "subscribe", on |-> "sdk", arg |-> options.tokenId ] >>

-----------------------------------------------------------------------------
LegendExists == legendElement # Null

StyleHasLegend == options.legendStyle \in { "simple", "complex" }

\* With the style 'none' nothing is ever rendered, and the O/H/L/C block is
\* in the legend only on a candlestick chart.
RenderedByStyle ==
    /\ options.legendStyle = "none" => (legendHtml = << >> /\ NoCalls("innerHTML"))
    /\ (legendHtml # << >> /\ legendHtml.ohlc # << >>) =>
         /\ candlestickSeries # Null
         /\ options.priceSeriesType = "candle"
         /\ options.priceSeriesType # "line"

\* A crosshair move renders the legend with the style 'complex', and with
\* no other: with 'simple' the legend stays as it is.
CrosshairByStyle ==
    ev'.kind = "crosshairMove" =>
        IF options.legendStyle = "complex"
        THEN CountCalls("innerHTML", "legend")' = 1 /\ legendHtml' = calls'[1].arg
        ELSE calls' = << >> /\ legendHtml' = legendHtml

====
